---- MODULE Spec2Model ----
(***************************************************************************)
(* Model of the gophstream relay pipeline:                                 *)
(*   - ApiService (internal/apiservice/service.go): the relay loop         *)
(*     ProcessMessages, CreateTask, AddResults, doWork, Start and Stop,    *)
(*     and NewApiService's reading of the poll-interval option;            *)
(*   - MemoryStorage (internal/storage): InsertMessage, GetMessages,       *)
(*     UpdateMessagesProcessed over the mirror map and its lock mx;        *)
(*   - BDKeeper (internal/bdkeeper/bdKeeper.go): the durable table;        *)
(*   - ExtController.SendMessageToKafka: the publish adapter;              *)
(*   - the worker pool (internal/workerpool), whose source is not part of  *)
(*     the sources at hand and is modelled from its contract.              *)
(***************************************************************************)
EXTENDS Integers, Sequences, FiniteSets, TLC

\* ------------------------------------------------------------------ bounds
MaxMsgs == 2        \* rows the durable table may hold
NumHandlers == 1    \* concurrent HTTP AddMessage requests
NumWorkers == 2     \* workers of the task pool
MaxTicks == 3       \* timer ticks the loop handles
MaxConfigLen == 3   \* characters of the poll-interval option

\* ------------------------------------------------------- program constants
Limit == 100        \* pagination.Limit of the relay query
Offset == 0         \* pagination.Offset (zero value) of the relay query

Ids == 1..MaxMsgs
Handlers == 1..NumHandlers
Workers == 1..NumWorkers

\* Values of the mirror lock: the zero value of sync.RWMutex is unlocked;
\* otherwise the holder is a handler or the relay loop.
Unlocked == 0
LoopHolder == NumHandlers + 1

VARIABLES
  db,         \* durable table "messages": id -> processed
  mirror,     \* MemoryStorage.messages: id -> processed
  mirrorNil,  \* MemoryStorage.messages is a nil map (LoadMessages failed)
  mx,         \* MemoryStorage.mx: Unlocked, or the goroutine holding it
  hpc,        \* per HTTP handler: position inside InsertMessage
  hid,        \* per HTTP handler: id returned by keeper.InsertMessage
  hret,       \* per HTTP handler: outcome of its last InsertMessage
  loopPc,     \* position of the goroutine ProcessMessages
  cancelled,  \* ctx.Done() is closed
  wg,         \* ApiService.wg counter
  stopPc,     \* position of the caller of Stop
  result,     \* the loop's accumulator `result`
  messages,   \* ids returned by the current cycle's GetMessages
  todo,       \* the part of the slice `messages` that the range loop of
              \* CreateTask has still to hand to the pool, in slice order
  ticks,      \* number of timer ticks handled
  queue,      \* task pool: number of queued tasks per message id
  wpc,        \* per worker: "idle", "run" (in SendMessageToKafka), "send" (in AddResults)
  wmsg,       \* per worker: id of the message of its task
  updRet,     \* value returned by the UpdateMessagesProcessed call of the current
              \* cycle: "none" until it is made, "running" until it returns
  published,  \* history, per id: "ok" once a SendMessageToKafka for it returned
              \* without error, "failed" while only errors were returned, else "no"
  config,     \* the string taskInterval() returns: a sequence of characters
  taskInterval, \* ApiService.taskInterval (0 until NewApiService has set it)
  batch       \* history of the batch queried last: "clean" when the pool held no
              \* earlier task and the accumulator no earlier result at its query,
              \* and no task failed since; "failed" when it was clean and a task
              \* failed; else "stale"

vars == <<db, mirror, mirrorNil, mx, hpc, hid, hret, loopPc, cancelled, wg,
          stopPc, result, messages, todo, ticks, queue, wpc, wmsg, updRet, published, batch,
          config, taskInterval>>

storeVars == <<db, mirror, mirrorNil, mx>>
handlerVars == <<hpc, hid, hret>>
loopVars == <<loopPc, result, messages, todo, ticks, updRet>>
lifeVars == <<cancelled, wg, stopPc>>
poolVars == <<queue, wpc, wmsg, published, batch>>
confVars == <<config, taskInterval>>

\* ----------------------------------------------------------------- helpers
Range(s) == {s[i] : i \in 1..Len(s)}
Min(a, b) == IF a < b THEN a ELSE b
Max(a, b) == IF a > b THEN a ELSE b
EmptyMap == [i \in {} |-> FALSE]

\* ----------------------------------------------------------------- BDKeeper
\* INSERT INTO messages ... RETURNING id: the serial id of the new row.
KeeperInsertId(d) == Cardinality(DOMAIN d) + 1

KeeperInsertMessage(d, processed) == (KeeperInsertId(d) :> processed) @@ d

\* The subsets of X that leave out k of its elements.
RECURSIVE LeavingOut(_, _)
LeavingOut(X, k) ==
  IF k = 0 THEN {X} ELSE UNION {LeavingOut(X \ {x}, k - 1) : x \in X}

\* SELECT ... WHERE processed = $1 LIMIT $2 OFFSET $3 has no ORDER BY: any
\* rows of the matching set may be returned, as many as limit and offset allow.
\* filter is the set of processed values the query accepts (a nil
\* filter.Processed accepts both).
KeeperGetMessages(d, filter, limit, offset) ==
  LET matching == {i \in DOMAIN d : d[i] \in filter}
      n == Min(limit, Max(Cardinality(matching) - offset, 0))
  IN LeavingOut(matching, Cardinality(matching) - n)

\* Mutant: the statement written as SET processed = NOT processed.
KeeperUpdateMessagesToggle(d, ids) ==
  [i \in DOMAIN d |-> IF i \in Range(ids) THEN ~d[i] ELSE d[i]]

\* UPDATE messages SET processed = true WHERE id = ANY($1)
KeeperUpdateMessagesProcessed(d, ids) ==
  [i \in DOMAIN d |-> IF i \in Range(ids) THEN TRUE ELSE d[i]]

\* ------------------------------------------------------------ MemoryStorage
\* Mutant: an id that is already processed is reported as a conflict.
RECURSIVE UpdateMirrorStrict(_, _)
UpdateMirrorStrict(m, ids) ==
  IF ids = <<>> THEN [messages |-> m, err |-> "nil"]
  ELSE IF Head(ids) \in DOMAIN m
       THEN IF m[Head(ids)]
            THEN [messages |-> m, err |-> "ErrConflict"]
            ELSE UpdateMirrorStrict([m EXCEPT ![Head(ids)] = TRUE], Tail(ids))
       ELSE [messages |-> m, err |-> "ErrNotFound"]

\* Mutant: an id the mirror does not hold is skipped and nil returned.
RECURSIVE UpdateMirrorSkip(_, _)
UpdateMirrorSkip(m, ids) ==
  IF ids = <<>> THEN [messages |-> m, err |-> "nil"]
  ELSE IF Head(ids) \in DOMAIN m
       THEN UpdateMirrorSkip([m EXCEPT ![Head(ids)] = TRUE], Tail(ids))
       ELSE UpdateMirrorSkip(m, Tail(ids))

\* The loop of UpdateMessagesProcessed over the mirror, with its early
\* return of ErrNotFound at the first id the mirror does not hold.
RECURSIVE UpdateMirror(_, _)
UpdateMirror(m, ids) ==
  IF ids = <<>> THEN [messages |-> m, err |-> "nil"]
  ELSE IF Head(ids) \in DOMAIN m
       THEN UpdateMirror([m EXCEPT ![Head(ids)] = TRUE], Tail(ids))
       ELSE [messages |-> m, err |-> "ErrNotFound"]

\* ------------------------------------------------------------ ExtController
\* SendMessageToKafka(message): (message.ID, nil) when kafka.SendMessage
\* succeeds, (0, err) otherwise.
SendMessageToKafka(id, ok) ==
  IF ok THEN [msg_id |-> id, err |-> FALSE] ELSE [msg_id |-> 0, err |-> TRUE]

\* ------------------------------------------------------------ configuration
\* The characters of the option strings explored.
Chars == {"0", "1", "9", "-", "+", "x"}
ConfigStrings == UNION {[1..n -> Chars] : n \in 0..MaxConfigLen}

DigitChars == <<"0", "1", "2", "3", "4", "5", "6", "7", "8", "9">>
IsDigit(ch) == \E i \in 1..Len(DigitChars) : DigitChars[i] = ch

\* ch - '0'
DigitValue(ch) == (CHOOSE i \in 1..Len(DigitChars) : DigitChars[i] = ch) - 1

\* n = n*10 + int(ch) over the digits, from the left.
RECURSIVE Accumulated(_, _)
Accumulated(n, digits) ==
  IF digits = <<>> THEN n
  ELSE Accumulated(n * 10 + DigitValue(Head(digits)), Tail(digits))

\* strconv.Atoi: an optional sign, then one digit at least and digits only;
\* (0, err) otherwise.  (The strings explored are too short to leave int.)
Atoi(str) ==
  IF str = <<>> THEN [n |-> 0, err |-> TRUE]
  ELSE LET digits == IF Head(str) \in {"-", "+"} THEN Tail(str) ELSE str
       IN IF digits = <<>> \/ \E i \in 1..Len(digits) : ~IsDigit(digits[i])
          THEN [n |-> 0, err |-> TRUE]
          ELSE [n |-> IF Head(str) = "-"
                      THEN 0 - Accumulated(0, digits)
                      ELSE Accumulated(0, digits),
                err |-> FALSE]

\* The interval NewApiService falls back to.
DefaultInterval == 3000

\* Mutant: the error of Atoi not looked at.
TaskIntervalNoFallback(str) == Atoi(str).n

\* taskInt, err := strconv.Atoi(taskInterval()); if err != nil { taskInt = 3000 }
TaskInterval(str) == IF Atoi(str).err THEN DefaultInterval ELSE Atoi(str).n

\* NewApiService: the service built from the option string.
NewApiService ==
  /\ loopPc = "unbuilt"
  /\ taskInterval' = TaskInterval(config)
  /\ loopPc' = "new"
  /\ UNCHANGED <<config, result, messages, todo, ticks, updRet>>
  /\ UNCHANGED <<storeVars, handlerVars, lifeVars, poolVars>>

\* --------------------------------------------------------------------- Init
\* The service built with the option absent.
Init ==
  /\ config = <<>>
  /\ taskInterval = TaskInterval(<<>>)
  /\ db = EmptyMap
  /\ mirror = EmptyMap
  /\ mirrorNil \in BOOLEAN
  /\ mx = Unlocked
  /\ hpc = [h \in Handlers |-> "idle"]
  /\ hid = [h \in Handlers |-> 0]
  /\ hret = [h \in Handlers |-> "none"]
  /\ loopPc = "new"
  /\ cancelled = FALSE
  /\ wg = 0
  /\ stopPc = "none"
  /\ result = <<>>
  /\ messages = {}
  /\ todo = <<>>
  /\ ticks = 0
  /\ queue = [i \in Ids |-> 0]
  /\ wpc = [w \in Workers |-> "idle"]
  /\ wmsg = [w \in Workers |-> 0]
  /\ updRet = "none"
  /\ published = [i \in Ids |-> "no"]
  /\ batch = "stale"

\* ------------------------------------------- MemoryStorage.InsertMessage
\* s.mx.Lock() at the entry of InsertMessage (called by AddMessage with
\* Processed: false).
InsertLock(h) ==
  /\ hpc[h] = "idle"
  /\ Cardinality(DOMAIN db) < MaxMsgs
  /\ mx = Unlocked
  /\ mx' = h
  /\ hpc' = [hpc EXCEPT ![h] = "keeper"]
  /\ hret' = [hret EXCEPT ![h] = "none"]
  /\ UNCHANGED <<db, mirror, mirrorNil, hid>>
  /\ UNCHANGED <<loopVars, lifeVars, poolVars, confVars>>

\* Mutant: the mirror written before the error of keeper.InsertMessage is
\* looked at (with the id 0 the keeper returns on error).
InsertKeeperStoreFirst(h) ==
  /\ hpc[h] = "keeper"
  /\ \E ok \in {b \in BOOLEAN : b => Cardinality(DOMAIN db) < MaxMsgs} :
       IF ok
       THEN /\ db' = KeeperInsertMessage(db, FALSE)
            /\ hid' = [hid EXCEPT ![h] = KeeperInsertId(db)]
            /\ hpc' = [hpc EXCEPT ![h] = "store"]
            /\ UNCHANGED <<mx, hret, mirror>>
       ELSE /\ mirror' = IF mirrorNil THEN mirror ELSE (0 :> FALSE) @@ mirror
            /\ mx' = Unlocked
            /\ hret' = [hret EXCEPT ![h] = "err"]
            /\ hpc' = [hpc EXCEPT ![h] = "idle"]
            /\ UNCHANGED <<db, hid>>
  /\ UNCHANGED mirrorNil
  /\ UNCHANGED <<loopVars, lifeVars, poolVars, confVars>>

\* s.keeper.InsertMessage: on error the deferred Unlock runs and err is
\* returned; on success the id is kept for the mirror write.
InsertKeeper(h) ==
  /\ hpc[h] = "keeper"
  /\ \E ok \in {b \in BOOLEAN : b => Cardinality(DOMAIN db) < MaxMsgs} :
       IF ok
       THEN /\ db' = KeeperInsertMessage(db, FALSE)
            /\ hid' = [hid EXCEPT ![h] = KeeperInsertId(db)]
            /\ hpc' = [hpc EXCEPT ![h] = "store"]
            /\ UNCHANGED <<mx, hret>>
       ELSE /\ mx' = Unlocked
            /\ hret' = [hret EXCEPT ![h] = "err"]
            /\ hpc' = [hpc EXCEPT ![h] = "idle"]
            /\ UNCHANGED <<db, hid>>
  /\ UNCHANGED <<mirror, mirrorNil>>
  /\ UNCHANGED <<loopVars, lifeVars, poolVars, confVars>>

\* s.messages[id] = message, then the deferred Unlock and return nil.  A
\* write to a nil map panics: the deferred Unlock still runs and the
\* request is aborted.
InsertStore(h) ==
  /\ hpc[h] = "store"
  /\ IF mirrorNil
     THEN /\ hret' = [hret EXCEPT ![h] = "panic"]
          /\ UNCHANGED mirror
     ELSE /\ mirror' = (hid[h] :> FALSE) @@ mirror
          /\ hret' = [hret EXCEPT ![h] = "nil"]
  /\ mx' = Unlocked
  /\ hpc' = [hpc EXCEPT ![h] = "idle"]
  /\ UNCHANGED <<db, mirrorNil, hid>>
  /\ UNCHANGED <<loopVars, lifeVars, poolVars, confVars>>

\* A row written to the table by another process (the table lives in a
\* separate PostgreSQL service): the same INSERT, without this process's mirror.
ExternalInsert ==
  /\ Cardinality(DOMAIN db) < MaxMsgs
  /\ db' = KeeperInsertMessage(db, FALSE)
  /\ UNCHANGED <<mirror, mirrorNil, mx>>
  /\ UNCHANGED <<handlerVars, loopVars, lifeVars, poolVars, confVars>>

\* ------------------------------------------------------ ApiService lifecycle
\* Start: context.WithCancel, wg.Add(1), go ProcessMessages, which begins
\* with time.NewTicker(taskInterval ms): NewTicker panics when the duration
\* is not positive.
Start ==
  /\ loopPc = "new"
  /\ wg' = wg + 1
  /\ loopPc' = IF taskInterval > 0 THEN "select" ELSE "panic"
  /\ UNCHANGED <<cancelled, stopPc>>
  /\ UNCHANGED <<result, messages, todo, ticks, updRet>>
  /\ UNCHANGED <<storeVars, handlerVars, poolVars, confVars>>

\* Stop: a.cancelFunc() and then a.wg.Wait(), which returns when wg = 0.
Stop ==
  /\ loopPc # "new"
  /\ stopPc = "none"
  /\ cancelled' = TRUE
  /\ stopPc' = IF wg = 0 THEN "returned" ELSE "wait"
  /\ UNCHANGED wg
  /\ UNCHANGED <<storeVars, handlerVars, loopVars, poolVars, confVars>>

\* ---------------------------------------------- ApiService.ProcessMessages
\* Mutant: the cancellation case flushes the accumulator with a last batch
\* update before the goroutine ends.
LoopDoneFlush ==
  /\ loopPc = "select"
  /\ cancelled
  /\ loopPc' = IF result # <<>> THEN "dowork" ELSE "exited"
  /\ UNCHANGED <<result, messages, todo, ticks, updRet>>
  /\ UNCHANGED <<storeVars, handlerVars, lifeVars, poolVars, confVars>>

\* case <-ctx.Done(): return.  The function has no wg.Done().
LoopDone ==
  /\ loopPc = "select"
  /\ cancelled
  /\ loopPc' = "exited"
  /\ UNCHANGED <<result, messages, todo, ticks, updRet>>
  /\ UNCHANGED <<storeVars, handlerVars, lifeVars, poolVars, confVars>>

\* Mutant: the accumulator overwritten instead of appended to.
AccumulateLast(r, j) == <<j>>

\* result = append(result, j)
Accumulate(r, j) == Append(r, j)

\* case job := <-a.results: the rendezvous with a worker blocked in
\* AddResults on the unbuffered channel; result = append(result, j).
LoopReceive(w) ==
  /\ loopPc = "select"
  /\ wpc[w] = "send"
  /\ result' = Accumulate(result, wmsg[w])
  /\ wpc' = [wpc EXCEPT ![w] = "idle"]
  /\ wmsg' = [wmsg EXCEPT ![w] = 0]
  /\ UNCHANGED <<loopPc, messages, todo, ticks, updRet>>
  /\ UNCHANGED <<queue, published, batch>>
  /\ UNCHANGED <<storeVars, handlerVars, lifeVars, confVars>>

\* No task is queued and no worker holds one.
PoolIdle == (\A i \in DOMAIN queue : queue[i] = 0) /\ (\A w \in Workers : wpc[w] = "idle")

\* Mutant: the filter left without its Processed field (a nil pointer), so
\* that the keeper's query has no WHERE clause.
NilFilter == {TRUE, FALSE}

\* processed := false; filter := models.Filter{Processed: &processed}
UnprocessedFilter == {FALSE}

\* Mutant: the query error logged and the next tick awaited.
AfterQueryErrorRetry == "select"

\* `if err != nil { return }` after GetMessages: the goroutine ends.
AfterQueryError == "exited"

\* The slices that hold the rows of S once each: the rows in any order
\* (rows.Next() appends them in the order the statement, which has no
\* ORDER BY, returns them).
Orders(S) == {sl \in [1..Cardinality(S) -> S] : Range(sl) = S}

\* GetMessages has returned an error: `return`.
TickFails(n) ==
  /\ loopPc = "select"
  /\ ticks' = n
  /\ updRet' = "none"
  /\ loopPc' = AfterQueryError
  /\ UNCHANGED <<result, messages, todo>>
  /\ UNCHANGED poolVars
  /\ UNCHANGED <<storeVars, handlerVars, lifeVars, confVars>>

\* GetMessages has returned the slice sl: a.CreateTask(messages) is entered.
TickReturns(n, sl) ==
  /\ loopPc = "select"
  /\ ticks' = n
  /\ updRet' = "none"
  /\ messages' = Range(sl)
  /\ todo' = sl
  /\ batch' = IF PoolIdle /\ result = <<>> THEN "clean" ELSE "stale"
  /\ loopPc' = "create"
  /\ UNCHANGED result
  /\ UNCHANGED <<queue, wpc, wmsg, published>>
  /\ UNCHANGED <<storeVars, handlerVars, lifeVars, confVars>>

\* case <-t.C: GetMessages(processed = false, Limit 100); return on error.
\* n is the number of ticks handled once this one is.
Tick(n) ==
  \/ TickFails(n)
  \/ \E S \in KeeperGetMessages(db, UnprocessedFilter, Limit, Offset) :
       \E sl \in Orders(S) : TickReturns(n, sl)

\* The ticks of the runs explored, at most MaxTicks of them.
LoopTick == ticks < MaxTicks /\ Tick(ticks + 1)

\* The pool's AddTask, by its contract (the task is accepted and kept until
\* a worker takes it; the submission waits for no task to complete).  The
\* source of the pool is not among the sources: whether its AddTask can
\* make the caller wait, for room or for a free worker, is not known.  A
\* pool that does has the runs of this one up to the call that waits, so
\* what holds in every state here holds with such a pool as well; nothing
\* is concluded here about the loop getting through CreateTask.
AddTask(q, id) == [q EXCEPT ![id] = @ + 1]

\* Mutants: the guard of doWork dropped, or never true.
AlwaysHasResults(r) == TRUE
NeverHasResults(r) == FALSE

\* The test `len(result) != 0` that guards doWork.
HasResults(r) == Len(r) # 0

\* A step of a.CreateTask(messages): one pass of its range loop, which
\* builds the task of the next message of the slice and hands it to the
\* pool; or, with the slice exhausted, the return, after which the loop
\* goes to doWork when the accumulator is not empty.
CreateTask ==
  /\ loopPc = "create"
  /\ IF todo # <<>>
     THEN /\ queue' = AddTask(queue, Head(todo))
          /\ todo' = Tail(todo)
          /\ UNCHANGED loopPc
     ELSE /\ loopPc' = IF HasResults(result) THEN "dowork" ELSE "select"
          /\ UNCHANGED <<queue, todo>>
  /\ UNCHANGED <<result, messages, ticks, updRet>>
  /\ UNCHANGED <<wpc, wmsg, published, batch>>
  /\ UNCHANGED <<storeVars, handlerVars, lifeVars, confVars>>

\* Mutant: the keeper's error logged but not returned, so that the call goes
\* on to the mirror.
UpdateKeeperErrorIgnored ==
  /\ loopPc = "dowork"
  /\ \E ok \in BOOLEAN :
       /\ db' = IF ok THEN KeeperUpdateMessagesProcessed(db, result) ELSE db
       /\ updRet' = "running"
       /\ loopPc' = "lock"
  /\ UNCHANGED <<mirror, mirrorNil, mx, result, messages, todo, ticks>>
  /\ UNCHANGED <<handlerVars, lifeVars, poolVars, confVars>>

\* doWork(result) -> MemoryStorage.UpdateMessagesProcessed: the keeper call,
\* made without the mirror lock.  On error the call returns it (doWork logs).
UpdateKeeper ==
  /\ loopPc = "dowork"
  /\ \E ok \in BOOLEAN :
       IF ok
       THEN /\ db' = KeeperUpdateMessagesProcessed(db, result)
            /\ updRet' = "running"
            /\ loopPc' = "lock"
       ELSE /\ updRet' = "err"
            /\ loopPc' = "done"
            /\ UNCHANGED db
  /\ UNCHANGED <<mirror, mirrorNil, mx, result, messages, todo, ticks>>
  /\ UNCHANGED <<handlerVars, lifeVars, poolVars, confVars>>

\* s.mx.Lock() of UpdateMessagesProcessed, after the keeper call.
UpdateLock ==
  /\ loopPc = "lock"
  /\ mx = Unlocked
  /\ mx' = LoopHolder
  /\ loopPc' = "mirror"
  /\ UNCHANGED <<db, mirror, mirrorNil>>
  /\ UNCHANGED <<result, messages, todo, ticks, updRet>>
  /\ UNCHANGED <<handlerVars, lifeVars, poolVars, confVars>>

\* The loop over ids under the lock, the deferred Unlock and the return.
UpdateStore ==
  /\ loopPc = "mirror"
  /\ LET r == UpdateMirror(mirror, result)
     IN /\ mirror' = r.messages
        /\ updRet' = r.err
  /\ mx' = Unlocked
  /\ loopPc' = "done"
  /\ UNCHANGED <<db, mirrorNil, result, messages, todo, ticks>>
  /\ UNCHANGED <<handlerVars, lifeVars, poolVars, confVars>>

\* Mutant: the accumulator kept after doWork.
LoopClearSkipped ==
  /\ loopPc = "done"
  /\ loopPc' = "select"
  /\ UNCHANGED <<result, messages, todo, ticks, updRet>>
  /\ UNCHANGED <<storeVars, handlerVars, lifeVars, poolVars, confVars>>

\* Mutant: the accumulator cleared only when the batch update succeeded at
\* the durable store.
LoopClearOnSuccess ==
  /\ loopPc = "done"
  /\ result' = IF updRet = "err" THEN result ELSE <<>>
  /\ loopPc' = "select"
  /\ UNCHANGED <<messages, todo, ticks, updRet>>
  /\ UNCHANGED <<storeVars, handlerVars, lifeVars, poolVars, confVars>>

\* `result = nil` after doWork has returned, whatever it logged.
LoopClear ==
  /\ loopPc = "done"
  /\ result' = <<>>
  /\ loopPc' = "select"
  /\ UNCHANGED <<messages, todo, ticks, updRet>>
  /\ UNCHANGED <<storeVars, handlerVars, lifeVars, poolVars, confVars>>

\* ------------------------------------------------------------- task pool
\* A free worker takes any queued task (no order among tasks).  The workers
\* are interchangeable: the lowest free one takes it.
WorkerTake(w) ==
  /\ wpc[w] = "idle"
  /\ \A v \in Workers : v < w => wpc[v] # "idle"
  /\ \E i \in DOMAIN queue :
       /\ queue[i] > 0
       /\ queue' = [queue EXCEPT ![i] = @ - 1]
       /\ wmsg' = [wmsg EXCEPT ![w] = i]
  /\ wpc' = [wpc EXCEPT ![w] = "run"]
  /\ UNCHANGED <<published, batch>>
  /\ UNCHANGED <<storeVars, handlerVars, loopVars, lifeVars, confVars>>

\* What the history records for an id after one more adapter call.
Record(p, ok) == IF ok THEN "ok" ELSE IF p = "ok" THEN "ok" ELSE "failed"

\* Mutant: the closure without its error check.
TaskEmitsAlways(r) == TRUE

\* `if err != nil { return ... }` of the task closure: AddResults is reached
\* only when SendMessageToKafka returned no error.
TaskEmits(r) == ~r.err

\* The task closure of CreateTask: SendMessageToKafka; on error the task
\* returns it, on success it calls AddResults(msg_id), which blocks until
\* the loop receives.
WorkerPublish(w) ==
  /\ wpc[w] = "run"
  /\ \E ok \in BOOLEAN :
       LET r == SendMessageToKafka(wmsg[w], ok)
       IN /\ IF TaskEmits(r)
             THEN /\ wpc' = [wpc EXCEPT ![w] = "send"]
                  /\ wmsg' = [wmsg EXCEPT ![w] = r.msg_id]
             ELSE /\ wpc' = [wpc EXCEPT ![w] = "idle"]
                  /\ wmsg' = [wmsg EXCEPT ![w] = 0]
          /\ published' = [published EXCEPT ![wmsg[w]] = Record(@, ok)]
          /\ batch' = IF ~ok /\ batch = "clean" THEN "failed" ELSE batch
  /\ UNCHANGED queue
  /\ UNCHANGED <<storeVars, handlerVars, loopVars, lifeVars, confVars>>

\* --------------------------------------------------------------------- Next
Next ==
  \/ \E h \in Handlers : InsertLock(h)
  \/ \E h \in Handlers : InsertKeeper(h)
  \/ \E h \in Handlers : InsertStore(h)
  \/ ExternalInsert
  \/ Start
  \/ Stop
  \/ LoopDone
  \/ \E w \in Workers : LoopReceive(w)
  \/ LoopTick
  \/ CreateTask
  \/ UpdateKeeper
  \/ UpdateLock
  \/ UpdateStore
  \/ LoopClear
  \/ \E w \in Workers : WorkerTake(w)
  \/ \E w \in Workers : WorkerPublish(w)

Spec == Init /\ [][Next]_vars

\* ---------------------------------------- construction and relay queries
\* The runs that build the service from any option string, start it and
\* let the loop make its queries and hand the batches to the pool, over a
\* table of up to MaxMsgs unprocessed rows.
ConfInit ==
  /\ config \in ConfigStrings
  /\ taskInterval = 0
  /\ \E n \in 0..MaxMsgs :
       /\ db = [i \in 1..n |-> FALSE]
       /\ mirror = [i \in 1..n |-> FALSE]
  /\ mirrorNil = FALSE
  /\ mx = Unlocked
  /\ hpc = [h \in Handlers |-> "idle"]
  /\ hid = [h \in Handlers |-> 0]
  /\ hret = [h \in Handlers |-> "none"]
  /\ loopPc = "unbuilt"
  /\ cancelled = FALSE
  /\ wg = 0
  /\ stopPc = "none"
  /\ result = <<>>
  /\ messages = {}
  /\ todo = <<>>
  /\ ticks = 0
  /\ queue = [i \in Ids |-> 0]
  /\ wpc = [w \in Workers |-> "idle"]
  /\ wmsg = [w \in Workers |-> 0]
  /\ updRet = "none"
  /\ published = [i \in Ids |-> "no"]
  /\ batch = "stale"

ConfNext ==
  \/ NewApiService
  \/ Start
  \/ LoopTick
  \/ CreateTask

ConfSpec == ConfInit /\ [][ConfNext]_vars

\* ------------------------------------------------------------------ claims
InUpdate == loopPc \in {"dowork", "lock", "mirror", "done"}

\* C1: a message's processed flag is true, in the durable table or in the
\* mirror, only if a SendMessageToKafka call for it has returned without
\* error; every id the loop passes to UpdateMessagesProcessed is the id of
\* such a message.
C1_ProcessedOnlyAfterPublish ==
  /\ \A id \in DOMAIN db : db[id] => published[id] = "ok"
  /\ \A id \in DOMAIN mirror : mirror[id] => published[id] = "ok"
  /\ InUpdate => \A id \in Range(result) : id \in Ids /\ published[id] = "ok"

\* A message is processed in the table and in the mirror.
C1_Witness == \E id \in DOMAIN mirror : mirror[id] /\ db[id]

\* C2: once ProcessMessages has exited, the wait of Stop is released, which
\* wg.Wait() does when the counter is zero.
C2_StopReleased == (stopPc # "none" /\ loopPc = "exited") => (wg = 0 /\ stopPc = "returned")

\* C3: success scenario.  With A's id in the accumulator, the tick whose
\* query succeeds goes on to the batch update with the accumulated ids; the
\* keeper update marks them processed in the table; a processed row stays
\* processed, and no unprocessed query made afterwards returns it.
C3_Step ==
  /\ (loopPc = "create" /\ loopPc' # "create" /\ result # <<>>)
       => (loopPc' = "dowork" /\ result' = result)
  /\ (loopPc = "dowork" /\ loopPc' = "lock")
       => \A id \in Range(result) : id \in DOMAIN db' /\ db'[id]
  /\ \A id \in DOMAIN db : db[id] => (id \in DOMAIN db' /\ db'[id])
  /\ (loopPc = "select" /\ loopPc' = "create")
       => \A id \in messages' : id \in DOMAIN db /\ ~db[id]

C3_SuccessScenario == [][C3_Step]_vars

\* A query has just returned and left out a message that was published and
\* then marked processed by a batch update.
C3_Witness ==
  /\ loopPc = "create"
  /\ \E id \in DOMAIN db : db[id] /\ published[id] = "ok" /\ id \notin messages

\* The table after k further rows have been written to it (by AddMessage
\* requests or by another writer): the keeper's INSERT made k times gives
\* the next k serial ids to k unprocessed rows.
Backlog(d, k) ==
  [i \in 1..(Cardinality(DOMAIN d) + k) |-> IF i \in DOMAIN d THEN d[i] ELSE FALSE]

\* C4: failure scenario.  A task whose adapter call returns an error hands
\* nothing to the results channel and leaves the loop where it is; and a
\* message B whose publishes have all failed is returned by every
\* unprocessed query made from then on: by the query of every later tick
\* of the run, and by the relay query on the table as it is after any
\* number of further inserts (up to Limit of them), whatever rows the
\* statement returns.
C4_Step ==
  /\ \A w \in Workers :
       (wpc[w] = "run" /\ wpc'[w] # "run" /\ published'[wmsg[w]] = "failed")
         => /\ wpc'[w] = "idle"
            /\ \A v \in Workers : wpc'[v] = "send" => wpc[v] = "send"
            /\ result' = result
            /\ loopPc' = loopPc
  /\ (loopPc = "select" /\ loopPc' = "create")
       => \A id \in DOMAIN db : published[id] = "failed" => id \in messages'
  /\ \A id \in DOMAIN db :
       (published[id] = "failed" /\ ~db[id])
         => \A k \in 0..Limit :
              \A S \in KeeperGetMessages(Backlog(db, k), UnprocessedFilter, Limit, Offset) :
                id \in S

C4_FailureScenario == [][C4_Step]_vars

\* A tick whose query succeeds, seen from the state before it: messages is
\* still the batch queried by the previous cycle, and result is the
\* accumulator that this cycle hands to the batch update.
NextCycleBegins == loopPc = "select" /\ loopPc' = "create"

\* The tasks of the last batch are the only ones the pool was given (the
\* pool was idle and the accumulator empty when the batch was queried, so
\* that cycle made no batch update) and all of them have succeeded: none
\* failed, none is queued or running.
BatchAllSucceeded ==
  /\ batch = "clean"
  /\ messages # {}
  /\ \A i \in Ids : queue[i] = 0
  /\ \A w \in Workers : wpc[w] # "run"

\* C5 as stated: when all N tasks of a batch have succeeded, the next batch
\* update the loop makes (the accumulator is not empty at this tick, so this
\* cycle makes it) receives exactly the ids of the batch.
C5_Original ==
  [][(NextCycleBegins /\ BatchAllSucceeded /\ result # <<>>)
       => Range(result) = messages]_vars

\* C5 amended: when, moreover, the loop has received all N results before
\* the next tick (no worker is blocked in AddResults), the accumulator handed
\* to the batch update of the next cycle holds exactly the N ids, once each.
C5_BatchExact ==
  [][(NextCycleBegins /\ BatchAllSucceeded /\ PoolIdle)
       => (Range(result) = messages /\ Len(result) = Cardinality(messages))]_vars

\* A batch of two was dispatched to an idle pool, both tasks succeeded in
\* either order and both results were received before the next tick.
C5_Witness ==
  /\ loopPc = "select"
  /\ BatchAllSucceeded
  /\ PoolIdle
  /\ Cardinality(messages) = 2
  /\ Range(result) = messages

\* The loop leaves CreateTask in a cycle whose query returned nothing: its
\* range loop had no pass to make.
EmptyCycleDispatch == loopPc = "create" /\ loopPc' # "create" /\ messages = {}

\* C6 as stated: a cycle whose query returned nothing dispatches no task and
\* makes no batch update, whatever the accumulator holds.
C6_Original ==
  [][EmptyCycleDispatch => (queue' = queue /\ loopPc' = "select")]_vars

\* C6 amended: such a cycle dispatches no task; it makes no batch update when
\* the accumulator is empty at the tick, and otherwise one, with the ids
\* accumulated from earlier cycles.
C6_EmptyCycle ==
  [][/\ EmptyCycleDispatch
          => /\ queue' = queue
             /\ result = <<>> => loopPc' = "select"
             /\ result # <<>> => (loopPc' = "dowork" /\ result' = result)
     /\ (loopPc = "done" /\ loopPc' # "done") => loopPc' = "select"]_vars

\* A cycle has ended whose query returned nothing (every row is processed)
\* and which made no batch update.
C6_Witness ==
  /\ loopPc = "select"
  /\ ticks >= 1
  /\ messages = {}
  /\ updRet = "none"
  /\ \E id \in DOMAIN db : db[id]
  /\ \A i \in Ids : queue[i] = 0

\* C7: when UpdateMessagesProcessed(ids) has returned nil or ErrNotFound,
\* every id of ids that the mirror holds has the same processed value in the
\* mirror as in the table, also the ids that follow an id the mirror lacks.
C7_MirrorAgrees ==
  (loopPc = "done" /\ updRet \in {"nil", "ErrNotFound"})
    => \A id \in Range(result) \cap DOMAIN mirror :
         id \in DOMAIN db /\ mirror[id] = db[id]

\* C8: when the keeper call of InsertMessage or of UpdateMessagesProcessed
\* fails, the call returns the error and the mirror is as it was before the
\* call: the failing step leaves mirror and table alone, and nothing writes
\* the mirror while InsertMessage is in its keeper call.
C8_Step ==
  /\ \A h \in Handlers :
       /\ (hpc[h] = "keeper" /\ hpc'[h] = "idle")
            => (hret'[h] = "err" /\ mirror' = mirror /\ db' = db)
       /\ hpc[h] = "keeper" => mirror' = mirror
  /\ (loopPc = "dowork" /\ loopPc' = "done")
       => (updRet' = "err" /\ mirror' = mirror /\ db' = db)

C8_NoMirrorChangeOnFailure == [][C8_Step]_vars

\* An InsertMessage and an UpdateMessagesProcessed have both returned the
\* keeper's error, with messages in the mirror.
C8_Witness ==
  /\ \E h \in Handlers : hret[h] = "err" /\ hpc[h] = "idle"
  /\ loopPc = "done" /\ updRet = "err"
  /\ DOMAIN mirror # {}

\* C9: no goroutine holds the mirror lock while its keeper call is in
\* progress, in InsertMessage and in UpdateMessagesProcessed.
C9_LockOnlyForMirror ==
  /\ \A h \in Handlers : hpc[h] = "keeper" => mx # h
  /\ loopPc = "dowork" => mx # LoopHolder

\* C10: with the keeper available, UpdateMessagesProcessed(ids) sets
\* processed for exactly the rows of ids in the table; for ids the mirror
\* holds it returns nil and sets processed for exactly those ids in the
\* mirror, whether or not they were processed already or occur twice.
C10_Step ==
  /\ (loopPc = "dowork" /\ loopPc' = "lock")
       => db' = [i \in DOMAIN db |-> db[i] \/ i \in Range(result)]
  /\ (loopPc = "mirror" /\ loopPc' = "done" /\ Range(result) \subseteq DOMAIN mirror)
       => /\ updRet' = "nil"
          /\ mirror' = [i \in DOMAIN mirror |-> mirror[i] \/ i \in Range(result)]

C10_Idempotent == [][C10_Step]_vars

\* A call whose ids hold the same id twice has returned nil.
C10_Witness ==
  /\ loopPc = "done"
  /\ updRet = "nil"
  /\ Len(result) > Cardinality(Range(result))

\* A second call is about to be made with an id that an earlier call has
\* already marked processed in the table and in the mirror.
C10_OverlapReached ==
  /\ loopPc = "dowork"
  /\ \E id \in Range(result) \cap DOMAIN mirror : mirror[id] /\ db[id]

\* C11: a tick whose GetMessages returns an error ends the loop, with no
\* task dispatched and nothing written; once the loop has exited it stays
\* exited, no task is added to the pool, no processed flag changes in the
\* table or in the mirror, and the accumulator is never handed to a batch
\* update.
C11_Step ==
  /\ (loopPc = "select" /\ ticks' = ticks + 1 /\ loopPc' # "create")
       => /\ loopPc' = "exited"
          /\ queue' = queue /\ result' = result
          /\ db' = db /\ mirror' = mirror
  /\ loopPc = "exited"
       => /\ loopPc' = "exited"
          /\ ticks' = ticks /\ result' = result /\ updRet' = updRet
          /\ \A i \in Ids : queue'[i] <= queue[i]
          /\ \A id \in DOMAIN db : id \in DOMAIN db' /\ db'[id] = db[id]
          /\ \A id \in DOMAIN mirror : id \in DOMAIN mirror' /\ mirror'[id] = mirror[id]

C11_QueryErrorEndsLoop == [][C11_Step]_vars

\* The loop has exited without cancellation, on a query error, while the
\* accumulator held the id of a published message not yet marked processed.
C11_Witness ==
  /\ loopPc = "exited"
  /\ ~cancelled
  /\ \E id \in Range(result) : published[id] = "ok" /\ ~db[id]

\* The loop is inside its tick branch (query done; dispatch, batch update
\* and clearing still to do), where it does not receive from a.results.
InTickBranch == loopPc \in {"create", "dowork", "lock", "mirror", "done"}

\* C12: while the loop is in its tick branch, no worker whose publish
\* succeeded is blocked in AddResults: the results channel takes the result
\* without a receiver being ready.
C12_WorkerNeverBlocked == InTickBranch => \A w \in Workers : wpc[w] # "send"

\* C13: after the loop has exited no worker is left in AddResults, where
\* only a receive by the loop (LoopReceive, at its select) releases it: the
\* result of a publish that succeeds around the exit is dropped and the
\* worker is free again.
C13_WorkerFreed == loopPc = "exited" => \A w \in Workers : wpc[w] # "send"

\* No task is added to the pool by the step.
NoDispatch == \A i \in Ids : queue'[i] <= queue[i]

\* The step makes the keeper call of a batch update.
BatchUpdateCall == loopPc = "dowork" /\ loopPc' # "dowork"

\* C14 as stated: once cancellation is signalled the loop issues no query,
\* dispatches no task and makes no batch-update call.
C14_Original ==
  [][cancelled => (ticks' = ticks /\ NoDispatch /\ ~BatchUpdateCall)]_vars

\* C14 amended: the signal itself changes nothing of the loop; at a select
\* with the signal given the cancellation case can be taken; the loop leaves
\* its select without a tick only by that case, which ends the goroutine
\* with no task added and nothing written; the goroutine ends only at the
\* select, on that case or on a query error; and after it has ended there
\* is no query, no dispatch and no batch update.
C14_Step ==
  /\ (~cancelled /\ cancelled')
       => /\ loopPc' = loopPc /\ result' = result /\ ticks' = ticks
          /\ queue' = queue /\ db' = db /\ mirror' = mirror
  /\ (cancelled /\ loopPc = "select") => ENABLED LoopDone
  /\ (loopPc = "select" /\ loopPc' # "select" /\ ticks' = ticks)
       => /\ cancelled
          /\ loopPc' = "exited"
          /\ queue' = queue /\ result' = result /\ updRet' = updRet
          /\ db' = db /\ mirror' = mirror
  /\ (loopPc # "exited" /\ loopPc' = "exited")
       => (loopPc = "select" /\ (cancelled \/ ticks' = ticks + 1))
  /\ loopPc = "exited"
       => (loopPc' = "exited" /\ ticks' = ticks /\ NoDispatch /\ ~BatchUpdateCall)

C14_ExitOnObservedCancel == [][C14_Step]_vars

\* The loop has ended on the cancellation case before any tick, while an
\* unprocessed row waited for the next query.
C14_Witness ==
  /\ loopPc = "exited"
  /\ cancelled
  /\ ticks = 0
  /\ \E id \in DOMAIN db : ~db[id]

\* C15: in every step, each row of the table and each entry of the mirror
\* is still there under the same id afterwards, and a processed flag that
\* is true stays true; InsertMessage stores its message, unprocessed, under
\* the id the keeper returned, which no entry of the mirror had before.
C15_Step ==
  /\ \A id \in DOMAIN db : id \in DOMAIN db' /\ (db[id] => db'[id])
  /\ \A id \in DOMAIN mirror : id \in DOMAIN mirror' /\ (mirror[id] => mirror'[id])
  /\ \A h \in Handlers :
       (hpc[h] = "store" /\ hpc'[h] = "idle" /\ hret'[h] = "nil")
         => /\ hid[h] \in DOMAIN db /\ hid[h] \notin DOMAIN mirror
            /\ DOMAIN mirror' = DOMAIN mirror \cup {hid[h]}
            /\ ~mirror'[hid[h]]

C15_ProcessedMonotonic == [][C15_Step]_vars

\* A batch update has returned whose ids were all processed before it: the
\* query of its cycle found no unprocessed row.  They are still processed.
C15_Witness ==
  /\ loopPc = "done"
  /\ updRet = "nil"
  /\ messages = {}
  /\ result # <<>>
  /\ \A id \in Range(result) : db[id] /\ mirror[id]

\* C16: every message the mirror holds is a row of the table, and every
\* message processed in the mirror is processed in the table.
C16_MirrorNotAhead ==
  \A id \in DOMAIN mirror : id \in DOMAIN db /\ (mirror[id] => db[id])

\* The mirror holds two messages written by InsertMessage, one of them
\* marked processed by a batch update and the other not.
C16_Witness ==
  /\ \E id \in DOMAIN mirror : mirror[id]
  /\ \E id \in DOMAIN mirror : ~mirror[id]

\* C17: a call of UpdateMessagesProcessed(ids) whose keeper update succeeded
\* and whose ids include one the mirror does not hold returns ErrNotFound,
\* and when it returns every id of ids is processed in the table.
C17_Step ==
  (loopPc = "mirror" /\ loopPc' = "done" /\ ~(Range(result) \subseteq DOMAIN mirror))
    => /\ updRet' = "ErrNotFound"
       /\ \A id \in Range(result) : id \in DOMAIN db' /\ db'[id]

C17_MirrorMissReported == [][C17_Step]_vars

\* A call with two ids, one of them missing in the mirror, has returned
\* ErrNotFound with both rows processed in the table.
C17_Witness ==
  /\ loopPc = "done"
  /\ updRet = "ErrNotFound"
  /\ Cardinality(Range(result)) = 2
  /\ Range(result) \cap DOMAIN mirror # {}
  /\ \A id \in Range(result) : db[id]

\* The step changes the processed flag of a row or of a mirror entry.
FlagWritten ==
  \/ \E id \in DOMAIN db : db'[id] # db[id]
  \/ \E id \in DOMAIN mirror : mirror'[id] # mirror[id]

\* C18: the accumulator changes only by a receive at the select, which
\* appends the received id and writes nothing, and by the clearing that
\* ends a batch update; processed flags are written only inside the tick
\* branch, by the batch update; a tick makes at most one batch-update call,
\* entered from the dispatch step and marking exactly the accumulated ids;
\* when it is over the accumulator is empty.  The ids a cycle commits were
\* published before its tick, so a publish dispatched by cycle N is
\* committed by cycle N+1 at the earliest.
C18_Step ==
  /\ result' # result
       => \/ /\ loopPc = "select" /\ loopPc' = "select"
             /\ \E w \in Workers : wpc[w] = "send" /\ result' = Append(result, wmsg[w])
             /\ db' = db /\ mirror' = mirror
          \/ loopPc = "done" /\ loopPc' = "select" /\ result' = <<>>
  /\ FlagWritten => loopPc \in {"dowork", "mirror"}
  /\ (loopPc # "dowork" /\ loopPc' = "dowork")
       => (loopPc = "create" /\ todo = <<>> /\ queue' = queue /\ updRet = "none")
  /\ BatchUpdateCall => (updRet = "none" /\ updRet' # "none")
  /\ (loopPc = "dowork" /\ loopPc' = "lock")
       => db' = [i \in DOMAIN db |-> db[i] \/ i \in Range(result)]
  /\ (loopPc = "done" /\ loopPc' # "done") => (loopPc' = "select" /\ result' = <<>>)
  /\ ticks' # ticks
       => (updRet' = "none" /\ \A id \in Range(result') : published[id] = "ok")

C18_CommitInTickBranch == [][C18_Step]_vars

\* A cycle has made its batch update, which returned nil, and cleared the
\* accumulator; the message it committed is processed in table and mirror.
C18_Witness ==
  /\ loopPc = "select"
  /\ updRet = "nil"
  /\ result = <<>>
  /\ \E id \in DOMAIN mirror : mirror[id] /\ db[id]

\* The option string is an integer in decimal: an optional sign and then
\* digits, one at least.
IsInteger(str) ==
  /\ str # <<>>
  /\ IsDigit(str[Len(str)])
  /\ \A i \in 2..Len(str) : IsDigit(str[i])
  /\ IsDigit(str[1]) \/ str[1] \in {"-", "+"}

\* The integer such a string denotes, by the weights of its digits.
RECURSIVE Weighted(_, _)
Weighted(str, i) ==
  IF i > Len(str) THEN 0
  ELSE (IF IsDigit(str[i]) THEN DigitValue(str[i]) * 10^(Len(str) - i) ELSE 0)
       + Weighted(str, i + 1)

Denoted(str) == IF str[1] = "-" THEN 0 - Weighted(str, 1) ELSE Weighted(str, 1)

\* A table of n rows of which the first k are processed.
TableOf(n, k) == [i \in 1..n |-> i <= k]

\* The query of the loop (unprocessed rows, limit 100, offset 0) on tables
\* of 99, 100, 101 and 102 rows, none or one of them processed: whatever
\* rows the statement returns, they are unprocessed rows of the table, 100
\* of them at most and all of them when there are 100 or fewer.
LimitBoundsQuery ==
  \A n \in 99..102 : \A k \in 0..1 :
    \A S \in KeeperGetMessages(TableOf(n, k), {FALSE}, 100, 0) :
      /\ S \subseteq (k + 1)..n
      /\ Cardinality(S) = Min(100, n - k)

\* C21: NewApiService sets the poll interval to the integer the option
\* string denotes when it is an integer, and to 3000 otherwise (absent or
\* unparseable), and nothing changes it afterwards; every relay query that
\* succeeds returns unprocessed rows only, 100 of them at most and all of
\* them when there are 100 or fewer (limit 100, offset 0).
C21_Step ==
  /\ (loopPc = "unbuilt" /\ loopPc' = "new")
       => taskInterval' = IF IsInteger(config) THEN Denoted(config) ELSE 3000
  /\ loopPc # "unbuilt" => taskInterval' = taskInterval
  /\ (loopPc = "select" /\ loopPc' = "create")
       => LET unprocessed == {id \in DOMAIN db : ~db[id]}
          IN /\ messages' \in KeeperGetMessages(db, {FALSE}, 100, 0)
             /\ messages' \subseteq unprocessed
             /\ Cardinality(messages') = Min(100, Cardinality(unprocessed))
  /\ LimitBoundsQuery

C21_ConfigFallback == [][C21_Step]_vars

\* A service built from an option that denotes a positive integer other
\* than the default has made its second query, with the tasks of the first
\* one in the pool, and got the unprocessed rows of the table.
C21_Witness ==
  /\ loopPc = "create"
  /\ IsInteger(config)
  /\ taskInterval = Denoted(config)
  /\ taskInterval # 3000
  /\ ticks = 2
  /\ messages = DOMAIN db
  /\ Cardinality(messages) = MaxMsgs
  /\ \E i \in messages : queue[i] > 0

\* No publish and no store call has failed so far in the run.
NoFailureSoFar ==
  /\ \A id \in DOMAIN published : published[id] # "failed"
  /\ batch # "failed"
  /\ updRet # "err"
  /\ \A h \in Handlers : hret[h] \notin {"err", "panic"}

\* The message has a task queued or running, or its id is on its way to the
\* loop or in the accumulator.
Outstanding(id) ==
  \/ queue[id] > 0
  \/ \E w \in Workers : wpc[w] # "idle" /\ wmsg[w] = id
  \/ id \in Range(result)

\* C22 as stated: in a run without failures, the query of a tick returns no
\* message that is still outstanding, so that no message is handed to the
\* adapter twice.
C22_Original ==
  [][(NoFailureSoFar /\ loopPc = "select" /\ loopPc' = "create")
       => \A id \in messages' : ~Outstanding(id)]_vars

\* C22 amended: the query of a tick returns every row that is unprocessed
\* in the table at that moment (there are fewer than the limit), outstanding
\* or not, and no processed row; CreateTask hands the pool one more task for
\* each returned message, one message at a time, and none for the others,
\* and returns when it has done so for all of them.
C22_Step ==
  /\ (loopPc = "select" /\ loopPc' = "create")
       => messages' = {id \in DOMAIN db : ~db[id]}
  /\ (loopPc = "select" /\ loopPc' = "create")
       => (Range(todo') = messages' /\ Len(todo') = Cardinality(messages'))
  /\ (loopPc = "create" /\ todo' # todo)
       => /\ todo' = Tail(todo)
          /\ \A id \in Ids : queue'[id] = queue[id] + (IF id = Head(todo) THEN 1 ELSE 0)
  /\ (loopPc = "create" /\ todo' = todo) => NoDispatch
  /\ (loopPc = "create" /\ loopPc' # "create") => todo = <<>>
  /\ loopPc # "create" => (NoDispatch /\ (loopPc' # "create" => todo' = todo))

C22_DispatchedUntilProcessed == [][C22_Step]_vars

\* In a run without failures a message whose id is already in the
\* accumulator has been handed to the pool a second time, while another
\* message, processed in the table, has been left out by the query.
C22_Witness ==
  /\ NoFailureSoFar
  /\ loopPc = "dowork"
  /\ \E id \in messages : id \in Range(result) /\ queue[id] > 0
  /\ \E id \in DOMAIN db : db[id] /\ id \notin messages

\* C23 as stated: an id leaves the accumulator only when its row is marked
\* processed in the table.
C23_Original == [][\A id \in Range(result) \ Range(result') : db'[id]]_vars

\* C23 amended: a batch update that fails at the durable store leaves the
\* table and the accumulator as they were and returns the error; doWork
\* having returned, the loop empties the accumulator and goes back to the
\* select, whatever the call returned, so that the ids of a failed call are
\* dropped with their rows unprocessed; an id enters the accumulator only
\* by a receive at the select.
C23_Step ==
  /\ (loopPc = "dowork" /\ updRet' = "err")
       => (db' = db /\ mirror' = mirror /\ result' = result /\ loopPc' = "done")
  /\ (loopPc = "done" /\ loopPc' # "done")
       => (result' = <<>> /\ loopPc' = "select" /\ db' = db /\ updRet' = updRet)
  /\ Range(result') \subseteq Range(result)
       \/ (loopPc = "select" /\ loopPc' = "select" /\ Len(result') = Len(result) + 1)

C23_ClearedWhateverTheOutcome == [][C23_Step]_vars

\* The batch update of a cycle failed at the durable store and the cycle
\* ended: the accumulator is empty, no worker holds a result, and a message
\* whose publish succeeded is unprocessed in the table.
C23_Witness ==
  /\ loopPc = "select"
  /\ updRet = "err"
  /\ result = <<>>
  /\ \A w \in Workers : wpc[w] = "idle"
  /\ \E id \in DOMAIN db : published[id] = "ok" /\ ~db[id] /\ queue[id] = 0

\* The ids that the last successful keeper.InsertMessage of the handlers
\* wrote to the table (hid is assigned by that call only).
InsertedIds == {hid[h] : h \in Handlers} \ {0}

\* The mirror has every inserted id that the batch update is about to look
\* up under the lock.
InsertedInMirror ==
  loopPc = "mirror" => \A id \in InsertedIds \cap Range(result) : id \in DOMAIN mirror

\* C24: when UpdateMessagesProcessed examines the mirror for an id that
\* InsertMessage of this process wrote to the table, the mirror holds it.
C24_InsertedNeverMissed == InsertedInMirror

\* With a mirror that the warm load left usable the property of C24 holds:
\* InsertMessage holds the lock from before its keeper call to after its
\* mirror write, and the batch update takes the lock to read the mirror.
C24_HoldsWithUsableMirror == mirrorNil \/ InsertedInMirror

\* C25: when the warm load has failed, an InsertMessage whose durable insert
\* succeeded stores the message in the mirror and returns nil.
C25_Step ==
  \A h \in Handlers :
    (mirrorNil /\ hpc[h] = "store" /\ hpc'[h] = "idle")
      => (hret'[h] = "nil" /\ hid[h] \in DOMAIN mirror')

C25_UsableAfterFailedLoad == [][C25_Step]_vars
====
